---- MODULE Spec2Model ----
(***************************************************************************)
(* GuidelineRecommendationWorkflow of patient-case-summary/app.py: the     *)
(* seven step handlers, the module-level workflow object that runs them,   *)
(* and run_workflow_async, the caller that drains the event stream and     *)
(* awaits the run handle.                                                  *)
(*                                                                         *)
(* The handlers run on llama_index.core.workflow (imported at app.py       *)
(* 14-21).  What the model takes from that runtime is what the calls in    *)
(* app.py rely on: every step has a FIFO queue and worker tasks;           *)
(* ctx.send_event / a returned event is put on the queue of the step that  *)
(* accepts its type; ctx.write_event_to_stream is a synchronous put on an  *)
(* unbounded queue (it is called without await); ctx.collect_events        *)
(* buffers the event and returns the buffered events only once every       *)
(* expected type is matched; a StopEvent is consumed by the built-in _done *)
(* step; the run's supervisor waits for the first task that ends with an   *)
(* exception, cancels the other tasks and resolves the handle.             *)
(* A step body runs atomically between two awaits that really suspend      *)
(* (the LLM calls); the actions below are those segments.                  *)
(***************************************************************************)
EXTENDS Integers, Sequences, FiniteSets, TLC

\* ---------------------------------------------------------------- bounds
MaxBundles == 2   \* most condition bundles the LLM returns for one patient
MaxQueries == 1   \* most guideline queries the LLM returns for one bundle

\* ------------------------------------------------------- program constants
NumWorkers == 4   \* worker tasks per @step (the decorator's default)
verbose == TRUE   \* workflow = GuidelineRecommendationWorkflow(..., verbose=True)

Runs == {1, 2}       \* calls of run_workflow_async on the one workflow object
Patients == {1, 2}   \* the uploaded patient files; run r is given patient r

StepNames ==
  {"parse_patient_info", "create_condition_bundles", "dispatch_guideline_match",
   "handle_guideline_match", "gather_guideline_match", "generate_output", "_done"}

\* Signatures in which gather_guideline_match takes the event of
\* handle_guideline_match too.
accepted_events_copied(step) ==
  CASE step = "parse_patient_info" -> {"StartEvent"}
    [] step = "create_condition_bundles" -> {"PatientInfoEvent"}
    [] step = "dispatch_guideline_match" -> {"ConditionBundleEvent"}
    [] step = "handle_guideline_match" -> {"MatchGuidelineEvent"}
    [] step = "gather_guideline_match" -> {"MatchGuidelineEvent", "MatchGuidelineResultEvent"}
    [] step = "generate_output" -> {"GenerateCaseSummaryEvent"}
    [] step = "_done" -> {"StopEvent"}

\* The event types a step takes: the annotation of `ev` in its signature.
accepted_events(step) ==
  CASE step = "parse_patient_info" -> {"StartEvent"}
    [] step = "create_condition_bundles" -> {"PatientInfoEvent"}
    [] step = "dispatch_guideline_match" -> {"ConditionBundleEvent"}
    [] step = "handle_guideline_match" -> {"MatchGuidelineEvent"}
    [] step = "gather_guideline_match" -> {"MatchGuidelineResultEvent"}
    [] step = "generate_output" -> {"GenerateCaseSummaryEvent"}
    [] step = "_done" -> {"StopEvent"}

\* The step whose signature annotates `ev` with the event type.
Accepts(type) == CHOOSE step \in StepNames : type \in accepted_events(step)

EventTypes ==
  {"StartEvent", "PatientInfoEvent", "ConditionBundleEvent", "MatchGuidelineEvent",
   "MatchGuidelineResultEvent", "GenerateCaseSummaryEvent", "StopEvent"}

\* The cache files under self.output_dir.
PatientInfoFile == "patient_info.json"
BundlesFile == "condition_bundles.json"
RecsFile == "guideline_recommendations.jsonl"

VARIABLES
  fs,               \* output_dir: file name -> [valid, patient, n]
  faults,           \* whether the capabilities and the file system may fail
  bundleCounts,     \* how many bundles the LLM may return for a patient
  requests,         \* the runs the caller starts
  runState,         \* run -> "Idle", "Running", "Completed", "Failed", "Cancelled"
  queues,           \* run -> step -> the events waiting for the step's workers
  active,           \* run -> step -> the handler instances suspended in an await
  ctx,              \* run -> the Context's key/value store (a function on its keys)
  events_buffer,    \* run -> ctx.collect_events' buffer
  streaming_queue,  \* run -> the stream's queue
  doneExc,          \* run -> exceptions of ended step tasks the supervisor has not seen
  handle,           \* run -> the WorkflowHandler future: [status, value, exc]
  consumer,         \* run -> run_workflow_async: [pc, log_events, response_dict]
  calls,            \* run -> [predict, retrieve]: calls of the two capabilities
  sent,             \* run -> event type -> number of events a step has sent
  written,          \* run -> every LogEvent written to the stream, in order
  settled,          \* run -> bundles whose handle_guideline_match returned
  gathered,         \* run -> the payloads of the GenerateCaseSummaryEvents sent
  startDir,         \* run -> the output directory as the run found it
  cacheErrors,      \* run -> the cache files whose read or write failed
  st,               \* run -> what display_workflow has written to the page
  cacheWrites,      \* run -> the cache files the run has written, in order
  dispatched        \* run -> the bundles dispatch_guideline_match has sent, in order

vars ==
  <<fs, faults, bundleCounts, requests, runState, queues, active, ctx, events_buffer,
    streaming_queue, doneExc, handle, consumer, calls, sent, written, settled,
    gathered, startDir, cacheErrors, st, cacheWrites, dispatched>>

\* ----------------------------------------------------------------- values
\* PatientInfo is represented by its patient; ConditionBundles by the list of
\* its bundles; a GuidelineRecommendation by the prompt inputs it was made from.
Bundle(p, i) == [patient |-> p, idx |-> i]
Bundles(p, n) == [i \in 1..n |-> Bundle(p, i)]
\* A recommendation made from the run's first bundle whatever bundle the
\* handler was given.
Rec_first(patient_info, bundle) ==
  [demo |-> patient_info, for |-> Bundle(bundle.patient, 1)]

Rec(patient_info, bundle) == [demo |-> patient_info, for |-> bundle]

NoFile == [valid |-> FALSE, patient |-> 0, n |-> 0]
FileOf(p, n) == [valid |-> TRUE, patient |-> p, n |-> n]

exists(path) == path \in DOMAIN fs
Written(path, content) ==
  [f \in DOMAIN fs \cup {path} |-> IF f = path THEN content ELSE fs[f]]

LogEvent(step, inst, k) == [type |-> "LogEvent", step |-> step, inst |-> inst, k |-> k]
StreamStop == [type |-> "StopEvent", step |-> "_done", inst |-> 0, k |-> 0]

Pending == [status |-> "pending", value |-> <<>>, exc |-> ""]

\* A set that never reaches the store.
CtxSet_lost(store, key, value) == store

\* Context.set / Context.get on the run's store.
CtxSet(store, key, value) ==
  [k \in DOMAIN store \cup {key} |-> IF k = key THEN value ELSE store[k]]
CtxHas(store, key) == key \in DOMAIN store

\* The outcomes of a call that can fail.
Outcomes == IF faults THEN {"ok", "error"} ELSE {"ok"}

\* ---------------------------------------------------------------- runtime
\* Context.send_event, and the worker's hand-over of a returned event: the
\* event goes to the queue of every step that accepts its type.
send_event(q, ev) ==
  [step \in StepNames |->
     IF ev.type \in accepted_events(step) THEN Append(q[step], ev) ELSE q[step]]

\* A LogEvent handed to send_event: no step accepts it, the stream never gets it.
write_event_to_stream_sent(q, ev) == q

\* Context.write_event_to_stream: put_nowait on the stream's queue.
write_event_to_stream(q, ev) == Append(q, ev)

\* A loop whose send_event comes after it: only the last event is sent.
SendAll_last(q, evs) ==
  IF evs = <<>> THEN q ELSE send_event(q, evs[Len(evs)])

RECURSIVE SendAll(_, _)
SendAll(q, evs) ==
  IF evs = <<>> THEN q ELSE SendAll(send_event(q, Head(evs)), Tail(evs))

RECURSIVE WriteAll(_, _)
WriteAll(q, evs) ==
  IF evs = <<>> THEN q
  ELSE WriteAll(write_event_to_stream(q, Head(evs)), Tail(evs))

\* The LogEvents number from..to of one handler instance.
Logs(step, inst, from, to) ==
  [j \in 1..(to - from + 1) |-> LogEvent(step, inst, from + j - 1)]

\* A collector that answers an empty list, not None, while events are missing.
collect_events_empty(buffer, ev, n) ==
  LET buf == Append(buffer, ev)
  IN IF Len(buf) >= n
       THEN [events |-> SubSeq(buf, 1, n), none |-> FALSE,
             buffer |-> SubSeq(buf, n + 1, Len(buf))]
       ELSE [events |-> <<>>, none |-> FALSE, buffer |-> buf]

\* A collector that hands out every event as it comes.
collect_events_first(buffer, ev, n) ==
  [events |-> <<ev>>, none |-> FALSE, buffer |-> buffer]

\* Context.collect_events(ev, [MatchGuidelineResultEvent] * n): buffer ev, and
\* hand out the first n buffered events once there are n of them.
collect_events(buffer, ev, n) ==
  LET buf == Append(buffer, ev)
  IN IF Len(buf) >= n
       THEN [events |-> SubSeq(buf, 1, n), none |-> FALSE,
             buffer |-> SubSeq(buf, n + 1, Len(buf))]
       ELSE [events |-> <<>>, none |-> TRUE, buffer |-> buf]

Event(type, payload) == [type |-> type, payload |-> payload]

\* What every action of a step handler does besides its own effect: the log
\* events go to the stream, an exception ends the step's task, an output
\* event is routed.  `out` is a sequence of events, `exc` "" or the exception,
\* `ioerr` the cache files whose read or write failed in this segment.
Emit(r, step, q, logs, out, exc, ioerr) ==
  /\ streaming_queue' = [streaming_queue EXCEPT ![r] = WriteAll(@, logs)]
  /\ written' = [written EXCEPT ![r] = @ \o logs]
  /\ cacheErrors' = [cacheErrors EXCEPT ![r] = @ \cup ioerr]
  /\ gathered' = [gathered EXCEPT ![r] =
       IF exc = "" /\ out # <<>> /\ out[1].type = "GenerateCaseSummaryEvent"
         THEN Append(@, out[1].payload) ELSE @]
  /\ IF exc = ""
       THEN /\ queues' = [queues EXCEPT ![r] = SendAll(q, out)]
            /\ sent' = [sent EXCEPT ![r] =
                 IF out = <<>> THEN @
                 ELSE [@ EXCEPT ![out[1].type] = @ + Len(out)]]
            /\ doneExc' = doneExc
       ELSE /\ queues' = [queues EXCEPT ![r] = q]
            /\ sent' = sent
            /\ doneExc' = [doneExc EXCEPT ![r] = @ \cup {[step |-> step, exc |-> exc]}]

\* Workers that go on taking events whatever the state of the run.
CanRun_any(r, step) ==
  /\ runState[r] # "Idle"
  /\ queues[r][step] # <<>>
  /\ Cardinality(active[r][step]) < NumWorkers

CanRun(r, step) ==
  /\ runState[r] = "Running"
  /\ queues[r][step] # <<>>
  /\ Cardinality(active[r][step]) < NumWorkers

Dequeued(r, step) == [queues[r] EXCEPT ![step] = Tail(@)]

\* ------------------------------------------------------------------ steps
\* workflow.run(patient_json_path=...): a fresh Context, the StartEvent sent.
StartRun(r) ==
  /\ r \in requests
  /\ runState[r] = "Idle"
  /\ runState' = [runState EXCEPT ![r] = "Running"]
  /\ queues' = [queues EXCEPT ![r] = send_event(@, Event("StartEvent", r))]
  /\ sent' = [sent EXCEPT ![r]["StartEvent"] = 1]
  /\ consumer' = [consumer EXCEPT ![r].pc = "streaming"]
  /\ startDir' = [startDir EXCEPT ![r] = fs]
  /\ UNCHANGED <<fs, faults, bundleCounts, requests, active, ctx, events_buffer, streaming_queue,
                 doneExc, handle, calls, written, settled, gathered, cacheErrors, st,
                 cacheWrites, dispatched>>

\* Whether the cache entry fails the stage that uses it: an entry that exists is
\* read, and is unreadable; one that does not exist is written, and `unsaved`
\* says that the write fails.
CacheFault(path, unsaved) ==
  IF exists(path) THEN ~fs[path].valid ELSE unsaved

\* A parse_patient_info that does not look for the cached entry: it parses
\* the patient file and saves the result every time.
parse_patient_info_always(path, parsed, saved) ==
  IF parsed = "error"
    THEN [exc |-> "ValueError", logs |-> 1, save |-> FALSE, patient_info |-> 0]
  ELSE IF saved = "error"
    THEN [exc |-> "OSError", logs |-> 1, save |-> FALSE, patient_info |-> 0]
  ELSE [exc |-> "", logs |-> 2, save |-> TRUE, patient_info |-> path]

\* A parse_patient_info that parses the patient file again when the cached
\* entry cannot be read, and goes on without the cache when it cannot be written.
parse_patient_info_fallback(path, parsed, saved) ==
  IF exists(PatientInfoFile) /\ fs[PatientInfoFile].valid
    THEN [exc |-> "", logs |-> 2, save |-> FALSE,
          patient_info |-> fs[PatientInfoFile].patient]
    ELSE IF parsed = "error"
           THEN [exc |-> "ValueError", logs |-> 1, save |-> FALSE, patient_info |-> 0]
         ELSE [exc |-> "", logs |-> 2, save |-> saved = "ok", patient_info |-> path]

\* The body of parse_patient_info on patient file `path`; `parsed` and `saved`
\* are the outcomes of parse_synthea_patient and of writing the cache file.
parse_patient_info(path, parsed, saved) ==
  IF exists(PatientInfoFile)
    THEN IF fs[PatientInfoFile].valid
           THEN [exc |-> "", logs |-> 2, save |-> FALSE,
                 patient_info |-> fs[PatientInfoFile].patient]
           ELSE [exc |-> "JSONDecodeError", logs |-> 1, save |-> FALSE,
                 patient_info |-> 0]
    ELSE IF parsed = "error"
           THEN [exc |-> "ValueError", logs |-> 1, save |-> FALSE, patient_info |-> 0]
         ELSE IF saved = "error"
           THEN [exc |-> "OSError", logs |-> 1, save |-> FALSE, patient_info |-> 0]
         ELSE [exc |-> "", logs |-> 2, save |-> TRUE, patient_info |-> path]

ParsePatientInfo(r) ==
  LET step == "parse_patient_info" IN
  /\ CanRun(r, step)
  /\ \E parsed \in Outcomes, saved \in Outcomes :
       LET ev == Head(queues[r][step])
           res == parse_patient_info(ev.payload, parsed, saved)
       IN /\ fs' = IF res.save
                     THEN Written(PatientInfoFile, FileOf(res.patient_info, 0))
                     ELSE fs
          /\ cacheWrites' = [cacheWrites EXCEPT ![r] =
                         IF res.save THEN Append(@, PatientInfoFile) ELSE @]
          /\ ctx' = IF res.exc = ""
                      THEN [ctx EXCEPT ![r] = CtxSet(@, "patient_info", res.patient_info)]
                      ELSE ctx
          /\ Emit(r, step, Dequeued(r, step),
                  IF verbose THEN Logs(step, 0, 1, res.logs) ELSE <<>>,
                  IF res.exc = ""
                    THEN <<Event("PatientInfoEvent", res.patient_info)>> ELSE <<>>,
                  res.exc,
                  IF CacheFault(PatientInfoFile, parsed = "ok" /\ saved = "error")
                    THEN {PatientInfoFile} ELSE {})
  /\ UNCHANGED <<faults, bundleCounts, requests, runState, active, events_buffer, handle,
                 consumer, calls, settled, startDir, st, dispatched>>

\* create_condition_bundles up to its await: the cached bundles are loaded and
\* returned, or the LLM is called.
CreateBundlesStart(r) ==
  LET step == "create_condition_bundles" IN
  /\ CanRun(r, step)
  /\ LET ev == Head(queues[r][step])
         hit == exists(BundlesFile)
         bad == hit /\ ~fs[BundlesFile].valid
     IN /\ active' = [active EXCEPT ![r][step] =
               IF hit THEN @ ELSE @ \cup {[ev |-> ev, pc |-> "astructured_predict"]}]
        /\ calls' = [calls EXCEPT ![r].predict = IF hit THEN @ ELSE @ + 1]
        /\ Emit(r, step, Dequeued(r, step), <<>>,
                IF hit /\ ~bad
                  THEN <<Event("ConditionBundleEvent",
                               Bundles(fs[BundlesFile].patient, fs[BundlesFile].n))>>
                  ELSE <<>>,
                IF bad THEN "JSONDecodeError" ELSE "",
                IF CacheFault(BundlesFile, FALSE) THEN {BundlesFile} ELSE {})
  /\ UNCHANGED <<fs, faults, bundleCounts, requests, runState, ctx, events_buffer, handle,
                 consumer, settled, startDir, st, cacheWrites, dispatched>>

\* create_condition_bundles after the LLM call: n bundles for the patient of
\* ev.patient_info are saved and returned.
CreateBundlesFinish(r) ==
  LET step == "create_condition_bundles" IN
  /\ runState[r] = "Running"
  /\ \E inst \in active[r][step] :
     \E predicted \in Outcomes, saved \in Outcomes, n \in bundleCounts :
       LET exc == IF predicted = "error" THEN "CapabilityError"
                  ELSE IF saved = "error" THEN "OSError" ELSE ""
       IN /\ active' = [active EXCEPT ![r][step] = @ \ {inst}]
          /\ fs' = IF exc = "" THEN Written(BundlesFile, FileOf(inst.ev.payload, n))
                   ELSE fs
          /\ cacheWrites' = [cacheWrites EXCEPT ![r] =
                         IF exc = "" THEN Append(@, BundlesFile) ELSE @]
          /\ Emit(r, step, queues[r], <<>>,
                  IF exc = ""
                    THEN <<Event("ConditionBundleEvent", Bundles(inst.ev.payload, n))>>
                    ELSE <<>>,
                  exc,
                  IF predicted = "ok" /\ saved = "error" THEN {BundlesFile} ELSE {})
  /\ UNCHANGED <<faults, bundleCounts, requests, runState, ctx, events_buffer, handle, consumer,
                 calls, settled, startDir, st, dispatched>>

\* dispatch_guideline_match: the expected count, then one event per bundle.
DispatchGuidelineMatch(r) ==
  LET step == "dispatch_guideline_match" IN
  /\ CanRun(r, step)
  /\ LET ev == Head(queues[r][step])
         bundles == ev.payload
     IN /\ ctx' = [ctx EXCEPT ![r] = CtxSet(@, "num_conditions", Len(bundles))]
        /\ dispatched' = [dispatched EXCEPT ![r] = @ \o bundles]
        /\ Emit(r, step, Dequeued(r, step), <<>>,
                [i \in 1..Len(bundles) |-> Event("MatchGuidelineEvent", bundles[i])],
                "", {})
  /\ UNCHANGED <<fs, faults, bundleCounts, requests, runState, active, events_buffer, handle,
                 consumer, calls, settled, startDir, st, cacheWrites>>

\* handle_guideline_match up to the first LLM call (the guideline queries).
HandleStart(r) ==
  LET step == "handle_guideline_match" IN
  /\ CanRun(r, step)
  /\ LET ev == Head(queues[r][step])
         has == CtxHas(ctx[r], "patient_info")
     IN /\ active' = [active EXCEPT ![r][step] =
               IF has
                 THEN @ \cup {[ev |-> ev, pc |-> "queries", logs |-> 0,
                               patient_info |-> ctx[r]["patient_info"]]}
                 ELSE @]
        /\ calls' = [calls EXCEPT ![r].predict = IF has THEN @ + 1 ELSE @]
        /\ Emit(r, step, Dequeued(r, step), <<>>, <<>>,
                IF has THEN "" ELSE "ValueError", {})
  /\ UNCHANGED <<fs, faults, bundleCounts, requests, runState, ctx, events_buffer, handle,
                 consumer, settled, startDir, st, cacheWrites, dispatched>>

\* len(guideline_queries.queries) for a bundle: the LLM's answer to the prompt
\* made from the bundle; over the bundles of a run it takes every value up to
\* MaxQueries.
GuidelineQueries(bundle) == bundle.idx % (MaxQueries + 1)

\* handle_guideline_match from the queries to the second LLM call: nq queries,
\* each logged and retrieved; the retrieval of query failAt raises (0: none).
HandleQueries(r) ==
  LET step == "handle_guideline_match" IN
  /\ runState[r] = "Running"
  /\ \E inst \in {i \in active[r][step] : i.pc = "queries"} :
     \E predicted \in Outcomes :
     \E failAt \in IF faults THEN 0..GuidelineQueries(inst.ev.payload) ELSE {0} :
       LET id == inst.ev.payload.idx
           nq == GuidelineQueries(inst.ev.payload)
           exc == IF predicted = "error" THEN "CapabilityError"
                  ELSE IF failAt > 0 THEN "RetrievalError" ELSE ""
           \* 530, then 533 per query, then 541-546
           nlogs == IF predicted = "error" THEN 0
                    ELSE IF failAt > 0 THEN (IF verbose THEN 1 + failAt ELSE 1)
                    ELSE IF verbose THEN nq + 3 ELSE 1
           retrieved == IF predicted = "error" THEN 0
                        ELSE IF failAt > 0 THEN failAt ELSE nq
       IN /\ active' = [active EXCEPT ![r][step] =
                 IF exc = ""
                   THEN (@ \ {inst}) \cup {[inst EXCEPT !.pc = "recommendation",
                                                        !.logs = nlogs]}
                   ELSE @ \ {inst}]
          /\ calls' = [calls EXCEPT ![r].retrieve = @ + retrieved,
                                    ![r].predict = IF exc = "" THEN @ + 1 ELSE @]
          /\ Emit(r, step, queues[r], Logs(step, id, 1, nlogs), <<>>, exc, {})
  /\ UNCHANGED <<fs, faults, bundleCounts, requests, runState, ctx, events_buffer, handle,
                 consumer, settled, startDir, st, cacheWrites, dispatched>>

\* handle_guideline_match after the second LLM call: the call raised, or it
\* returned something that is no GuidelineRecommendation (logged at 560, then
\* model_dump / the isinstance check raises), or the result event is returned.
HandleFinish(r) ==
  LET step == "handle_guideline_match" IN
  /\ runState[r] = "Running"
  /\ \E inst \in {i \in active[r][step] : i.pc = "recommendation"} :
     \E predicted \in Outcomes \cup (IF faults THEN {"invalid"} ELSE {}) :
       LET bundle == inst.ev.payload
           exc == IF predicted = "error" THEN "CapabilityError"
                  ELSE IF predicted = "invalid" THEN "ValueError" ELSE ""
           nlogs == IF predicted = "error" THEN 0
                    ELSE IF predicted = "invalid" \/ ~verbose THEN 1 ELSE 2
       IN /\ active' = [active EXCEPT ![r][step] = @ \ {inst}]
          /\ settled' = [settled EXCEPT ![r] =
                 IF exc = "" THEN @ \cup {bundle} ELSE @]
          /\ Emit(r, step, queues[r],
                  Logs(step, bundle.idx, inst.logs + 1, inst.logs + nlogs),
                  IF exc = ""
                    THEN <<Event("MatchGuidelineResultEvent",
                                 [bundle |-> bundle,
                                  rec |-> Rec(inst.patient_info, bundle)])>>
                    ELSE <<>>,
                  exc, {})
  /\ UNCHANGED <<fs, faults, bundleCounts, requests, runState, ctx, events_buffer, handle,
                 consumer, calls, startDir, st, cacheWrites, dispatched>>

\* gather_guideline_match: it has no await that suspends, so one invocation is
\* one step.  Every invocation but the one that completes the collection
\* returns None; that one saves the recommendations and returns the pairs.
GatherGuidelineMatch(r) ==
  LET step == "gather_guideline_match" IN
  /\ CanRun(r, step)
  /\ \E saved \in Outcomes :
       LET ev == Head(queues[r][step])
           has == CtxHas(ctx[r], "num_conditions")
           got == IF has
                    THEN collect_events(events_buffer[r], ev, ctx[r]["num_conditions"])
                    ELSE [events |-> <<>>, none |-> TRUE, buffer |-> events_buffer[r]]
           match_results == [i \in 1..Len(got.events) |-> got.events[i].payload]
           exc == IF ~has THEN "ValueError"
                  ELSE IF ~got.none /\ saved = "error" THEN "OSError" ELSE ""
       IN /\ events_buffer' = [events_buffer EXCEPT ![r] = got.buffer]
          /\ fs' = IF ~got.none /\ exc = ""
                     THEN Written(RecsFile,
                                  FileOf(IF match_results = <<>> THEN 0
                                         ELSE match_results[1].rec.demo,
                                         Len(match_results)))
                     ELSE fs
          /\ cacheWrites' = [cacheWrites EXCEPT ![r] =
                         IF ~got.none /\ exc = "" THEN Append(@, RecsFile) ELSE @]
          /\ Emit(r, step, Dequeued(r, step), <<>>,
                  IF ~got.none /\ exc = ""
                    THEN <<Event("GenerateCaseSummaryEvent", match_results)>>
                    ELSE <<>>,
                  exc,
                  IF ~got.none /\ saved = "error" THEN {RecsFile} ELSE {})
  /\ UNCHANGED <<faults, bundleCounts, requests, runState, active, ctx, handle, consumer, calls,
                 settled, startDir, st, dispatched>>

\* generate_output up to the LLM call.
GenerateStart(r) ==
  LET step == "generate_output" IN
  /\ CanRun(r, step)
  /\ LET ev == Head(queues[r][step])
         has == CtxHas(ctx[r], "patient_info")
     IN /\ active' = [active EXCEPT ![r][step] =
               IF has
                 THEN @ \cup {[ev |-> ev, pc |-> "astructured_predict",
                               patient_info |-> ctx[r]["patient_info"]]}
                 ELSE @]
        /\ calls' = [calls EXCEPT ![r].predict = IF has THEN @ + 1 ELSE @]
        /\ Emit(r, step, Dequeued(r, step),
                IF verbose THEN Logs(step, 0, 1, 1) ELSE <<>>, <<>>,
                IF has THEN "" ELSE "ValueError", {})
  /\ UNCHANGED <<fs, faults, bundleCounts, requests, runState, ctx, events_buffer, handle,
                 consumer, settled, startDir, st, cacheWrites, dispatched>>

\* generate_output after the LLM call: StopEvent(result={"case_summary": ...}).
GenerateFinish(r) ==
  LET step == "generate_output" IN
  /\ runState[r] = "Running"
  /\ \E inst \in active[r][step] :
     \E predicted \in Outcomes :
       LET exc == IF predicted = "error" THEN "CapabilityError" ELSE ""
           case_summary == [demographic_info |-> inst.patient_info,
                            condition_guideline_info |-> inst.ev.payload]
       IN /\ active' = [active EXCEPT ![r][step] = @ \ {inst}]
          /\ Emit(r, step, queues[r], <<>>,
                  IF exc = "" THEN <<Event("StopEvent", case_summary)>> ELSE <<>>,
                  exc, {})
  /\ UNCHANGED <<fs, faults, bundleCounts, requests, runState, ctx, events_buffer, handle,
                 consumer, calls, settled, startDir, st, cacheWrites, dispatched>>

\* The runtime's _done step: it keeps the StopEvent's result, writes the
\* StopEvent to the stream and ends its task with WorkflowDone.
Done(r) ==
  LET step == "_done" IN
  /\ CanRun(r, step)
  /\ LET ev == Head(queues[r][step])
     IN /\ handle' = [handle EXCEPT ![r].value = <<ev.payload>>]
        /\ queues' = [queues EXCEPT ![r] = Dequeued(r, step)]
        /\ streaming_queue' =
             [streaming_queue EXCEPT ![r] = write_event_to_stream(@, StreamStop)]
        /\ doneExc' = [doneExc EXCEPT ![r] =
                         @ \cup {[step |-> step, exc |-> "WorkflowDone"]}]
  /\ UNCHANGED <<fs, faults, bundleCounts, requests, runState, active, ctx, events_buffer,
                 consumer, calls, sent, written, settled,
                 gathered, startDir, cacheErrors, st, cacheWrites, dispatched>>

\* A supervisor that takes every ended task for one that is done.
exception_raised_none(done) == {}

\* The run's supervisor (the task behind workflow.run): a step task has ended
\* with an exception.  The other tasks are cancelled; WorkflowDone resolves
\* the handle with the result, any other exception closes the stream with an
\* empty StopEvent and resolves the handle with the exception.
exception_raised(done) == {e \in done : e.exc # "WorkflowDone"}

Supervise(r) ==
  /\ runState[r] = "Running"
  /\ doneExc[r] # {}
  /\ LET errors == exception_raised(doneExc[r])
     IN IF errors = {}
          THEN /\ runState' = [runState EXCEPT ![r] = "Completed"]
               /\ handle' = [handle EXCEPT ![r].status = "result"]
               /\ UNCHANGED streaming_queue
          ELSE \E e \in errors :
               /\ runState' = [runState EXCEPT ![r] = "Failed"]
               /\ handle' = [handle EXCEPT ![r].status = "exception", ![r].exc = e.exc]
               /\ streaming_queue' =
                    [streaming_queue EXCEPT ![r] = write_event_to_stream(@, StreamStop)]
  /\ active' = [active EXCEPT ![r] = [s \in StepNames |-> {}]]
  /\ UNCHANGED <<fs, faults, bundleCounts, requests, queues, ctx, events_buffer, doneExc,
                 consumer, calls, sent, written, settled,
                 gathered, startDir, cacheErrors, st, cacheWrites, dispatched>>

\* A consumer that leaves the loop at the StopEvent without the LogEvents that
\* were queued with it.
Drain_to_stop(q, c) ==
  IF \E i \in 1..Len(q) : q[i].type = "StopEvent"
    THEN [queue |-> <<>>, consumer |-> [c EXCEPT !.pc = "awaiting"]]
    ELSE [queue |-> <<>>, consumer |-> [c EXCEPT !.log_events = @ \o q]]

\* run_workflow_async, `async for event in handler.stream_events()`: the
\* consumer task takes every event that is in the queue (a get on a queue that
\* is not empty does not suspend) up to and including a StopEvent, which ends
\* the loop; the LogEvents are collected.
RECURSIVE Drain(_, _)
Drain(q, c) ==
  IF q = <<>> \/ c.pc # "streaming" THEN [queue |-> q, consumer |-> c]
  ELSE Drain(Tail(q),
             [c EXCEPT
                !.log_events = IF Head(q).type = "LogEvent" THEN Append(@, Head(q)) ELSE @,
                !.pc = IF Head(q).type = "StopEvent" THEN "awaiting" ELSE @])

StreamEvents(r) ==
  /\ consumer[r].pc = "streaming"
  /\ streaming_queue[r] # <<>>
  /\ LET got == Drain(streaming_queue[r], consumer[r])
     IN /\ streaming_queue' = [streaming_queue EXCEPT ![r] = got.queue]
        /\ consumer' = [consumer EXCEPT ![r] = got.consumer]
  /\ UNCHANGED <<fs, faults, bundleCounts, requests, runState, queues, active, ctx, events_buffer,
                 doneExc, handle, calls, sent, written, settled,
                 gathered, startDir, cacheErrors, st, cacheWrites, dispatched>>

\* run_workflow_async: `response_dict = await handler` returns the result or
\* raises the run's exception.  display_workflow, which called it, writes the
\* returned log_events and the case summary to the page; an exception passes
\* through both, and the page gets neither.
AwaitHandler(r) ==
  /\ consumer[r].pc = "awaiting"
  /\ handle[r].status # "pending"
  /\ consumer' = [consumer EXCEPT
       ![r].pc = IF handle[r].status = "result" THEN "returned" ELSE "raised",
       ![r].response_dict = IF handle[r].status = "result" THEN handle[r].value ELSE @]
  /\ st' = [st EXCEPT ![r] =
       IF handle[r].status = "result"
         THEN [logs |-> consumer[r].log_events, case_summary |-> handle[r].value]
         ELSE @]
  /\ UNCHANGED <<fs, faults, bundleCounts, requests, runState, queues, active, ctx, events_buffer,
                 streaming_queue, doneExc, handle, calls, sent, written, settled,
                 gathered, startDir, cacheErrors, cacheWrites, dispatched>>

\* ----------------------------------------------------------- specification
\* The output directories a run can find: empty, or holding the files an
\* earlier run for patient p with n bundles left behind before it ended (the
\* first `depth` of the three), one of them possibly unreadable.
CacheDir(p, n, depth, corruptAt) ==
  LET names == <<PatientInfoFile, BundlesFile, RecsFile>>
      content == <<FileOf(p, 0), FileOf(p, n), FileOf(p, n)>>
  IN [f \in {names[i] : i \in 1..depth} |->
        LET i == CHOOSE j \in 1..depth : names[j] = f
        IN IF i = corruptAt THEN NoFile ELSE content[i]]

InitialDirs ==
  {CacheDir(p, n, depth, corruptAt) :
     p \in Patients, n \in 0..MaxBundles, depth \in 0..3, corruptAt \in 0..3}

InitRun ==
  /\ runState = [r \in Runs |-> "Idle"]
  /\ queues = [r \in Runs |-> [s \in StepNames |-> <<>>]]
  /\ active = [r \in Runs |-> [s \in StepNames |-> {}]]
  /\ ctx = [r \in Runs |-> <<>>]
  /\ events_buffer = [r \in Runs |-> <<>>]
  /\ streaming_queue = [r \in Runs |-> <<>>]
  /\ doneExc = [r \in Runs |-> {}]
  /\ handle = [r \in Runs |-> Pending]
  /\ consumer = [r \in Runs |-> [pc |-> "idle", log_events |-> <<>>,
                                 response_dict |-> <<>>]]
  /\ calls = [r \in Runs |-> [predict |-> 0, retrieve |-> 0]]
  /\ sent = [r \in Runs |-> [t \in EventTypes |-> 0]]
  /\ written = [r \in Runs |-> <<>>]
  /\ settled = [r \in Runs |-> {}]
  /\ gathered = [r \in Runs |-> <<>>]
  /\ startDir = [r \in Runs |-> <<>>]
  /\ cacheErrors = [r \in Runs |-> {}]
  /\ st = [r \in Runs |-> [logs |-> <<>>, case_summary |-> <<>>]]
  /\ cacheWrites = [r \in Runs |-> <<>>]
  /\ dispatched = [r \in Runs |-> <<>>]

\* One run, on any output directory, with capabilities that may fail.
Init ==
  /\ fs \in InitialDirs
  /\ faults = TRUE
  /\ bundleCounts = 0..MaxBundles
  /\ requests = {1}
  /\ InitRun

Next ==
  \E r \in Runs :
    \/ StartRun(r)
    \/ ParsePatientInfo(r)
    \/ CreateBundlesStart(r)
    \/ CreateBundlesFinish(r)
    \/ DispatchGuidelineMatch(r)
    \/ HandleStart(r)
    \/ HandleQueries(r)
    \/ HandleFinish(r)
    \/ GatherGuidelineMatch(r)
    \/ GenerateStart(r)
    \/ GenerateFinish(r)
    \/ Done(r)
    \/ Supervise(r)
    \/ StreamEvents(r)
    \/ AwaitHandler(r)

Spec == Init /\ [][Next]_vars

\* Two runs of the one workflow object (two uploads), started on an empty
\* output directory, with capabilities that do not fail and an LLM that finds
\* one condition bundle per patient.
InitRuns ==
  /\ fs = <<>>
  /\ faults = FALSE
  /\ bundleCounts = {1}
  /\ requests = Runs
  /\ InitRun

SpecRuns == InitRuns /\ [][Next]_vars

\* The runs the caller starts where scheduling is fair: one call of
\* run_workflow_async.
FairRuns == {1}

\* The tasks of a run on the one event loop: the workers of its steps, the
\* runtime's _done step and supervisor, and the consumer of its stream.
Tasks(r) ==
  \/ ParsePatientInfo(r)
  \/ CreateBundlesStart(r)
  \/ CreateBundlesFinish(r)
  \/ DispatchGuidelineMatch(r)
  \/ HandleStart(r)
  \/ HandleQueries(r)
  \/ HandleFinish(r)
  \/ GatherGuidelineMatch(r)
  \/ GenerateStart(r)
  \/ GenerateFinish(r)
  \/ Done(r)
  \/ Supervise(r)
  \/ StreamEvents(r)
  \/ AwaitHandler(r)

\* The scheduling of the event loop: while a task of a run is ready, the loop
\* runs a task of the run, and a capability call that does not fail returns.
\* The caller's start of a run is not a task of the loop.
Fairness == \A r \in FairRuns : WF_vars(Tasks(r))

\* One run under the event loop's scheduling, on any output directory (a
\* cache entry may be unreadable, the cached bundles may be none), with
\* capabilities that return and a file system that takes every write.
InitFair ==
  /\ fs \in InitialDirs
  /\ faults = FALSE
  /\ bundleCounts = 0..MaxBundles
  /\ requests = FairRuns
  /\ InitRun

SpecFair == InitFair /\ [][Next]_vars /\ Fairness

\* ------------------------------------------------------------ properties
\* The run has nothing left to do although nobody ended it: no event waits
\* for a step, no handler is suspended, no task has ended with an exception.
Stalled(r) ==
  /\ runState[r] = "Running"
  /\ doneExc[r] = {}
  /\ \A s \in StepNames : queues[r][s] = <<>> /\ active[r][s] = {}

\* A handler of the run has raised.
Raised(r) == \E e \in doneExc[r] : e.exc # "WorkflowDone"

\* The fan-out of the run has been dispatched, with n bundles.
FannedOut(r, n) ==
  CtxHas(ctx[r], "num_conditions") /\ ctx[r]["num_conditions"] = n

\* C1: for every fan-out size N >= 0 and every arrival order of the results,
\* a run in which no handler raises sends exactly one GenerateCaseSummaryEvent,
\* and it carries exactly N pairs: once such a run has nothing left to do, one
\* event has been sent, with N pairs.
C1_GatherExactlyOnce ==
  \A r \in Runs : \A n \in 0..MaxBundles :
    (FannedOut(r, n) /\ ~Raised(r) /\ (Stalled(r) \/ runState[r] = "Completed"))
      => /\ Len(gathered[r]) = 1
         /\ Len(gathered[r][1]) = n

\* C2: a fan-out of zero bundles still releases generate_output: the run does
\* not come to rest before a GenerateCaseSummaryEvent with an empty collection
\* has been sent and the run has completed.
C2_ZeroFanOutCompletes ==
  \A r \in Runs :
    (FannedOut(r, 0) /\ ~Raised(r))
      => /\ ~Stalled(r)
         /\ (runState[r] # "Running" => gathered[r] = << <<>> >>)

\* The run found a valid cache entry for every stage.
WarmStart(r) ==
  /\ runState[r] # "Idle"
  /\ DOMAIN startDir[r] = {PatientInfoFile, BundlesFile, RecsFile}
  /\ \A f \in DOMAIN startDir[r] : startDir[r][f].valid

\* C3: a run that starts on an output directory with a valid cached artifact
\* for every stage calls neither astructured_predict nor retrieve.
C3_WarmRunCallsNothing ==
  \A r \in Runs :
    WarmStart(r) => calls[r].predict = 0 /\ calls[r].retrieve = 0

\* C4, in every state: once a handler has raised, the run is never completed
\* and the caller never gets a result; a failed run has its tasks cancelled
\* and its handle resolved with an exception that a handler raised; the
\* caller's await raises only for a failed run.
C4_FailedRun ==
  \A r \in Runs :
    /\ Raised(r) =>
         /\ runState[r] \in {"Running", "Failed"}
         /\ handle[r].status # "result"
         /\ consumer[r].pc # "returned"
         /\ consumer[r].response_dict = <<>>
    /\ runState[r] = "Failed" =>
         /\ Raised(r)
         /\ handle[r].status = "exception"
         /\ \E e \in doneExc[r] : e.exc # "WorkflowDone" /\ handle[r].exc = e.exc
         /\ \A s \in StepNames : active[r][s] = {}
    /\ consumer[r].pc = "raised" => runState[r] = "Failed"

\* C4, in every step: a failed run stays failed, no step of it is dispatched,
\* nothing is sent or written any more, and the exception the caller got is
\* not raised a second time.
C4_NothingAfterFailure ==
  \A r \in Runs :
    /\ runState[r] = "Failed" =>
         /\ runState'[r] = "Failed"
         /\ UNCHANGED <<queues[r], active[r], sent[r], written[r], ctx[r],
                        events_buffer[r], handle[r], gathered[r], calls[r]>>
    /\ consumer[r].pc = "raised" => UNCHANGED consumer[r]

\* C4: if a step handler raises (also a handle_guideline_match whose siblings
\* have returned), the run ends Failed, the error reaches the caller once
\* through the await of the handle, no result built from the siblings is
\* delivered, and no step is dispatched once the run has failed.
C4_FailFast == []C4_FailedRun /\ [][C4_NothingAfterFailure]_vars

\* C4's case: a handle_guideline_match raised after a sibling had returned,
\* and the caller's await has raised.
C4_Witness ==
  /\ runState[1] = "Failed"
  /\ settled[1] # {}
  /\ \E e \in doneExc[1] : e.step = "handle_guideline_match"
  /\ consumer[1].pc = "raised"

\* C5: a run is Completed only when every dispatched handle_guideline_match
\* has returned and every result has gone through gather_guideline_match: no
\* Stop completes the run while a sibling is still queued or in flight.
C5_CompletedMeansSettled ==
  \A r \in Runs :
    runState[r] = "Completed" =>
      /\ CtxHas(ctx[r], "num_conditions")
      /\ sent[r]["MatchGuidelineEvent"] = ctx[r]["num_conditions"]
      /\ Cardinality(settled[r]) = ctx[r]["num_conditions"]
      /\ sent[r]["MatchGuidelineResultEvent"] = ctx[r]["num_conditions"]
      /\ queues[r]["handle_guideline_match"] = <<>>
      /\ queues[r]["gather_guideline_match"] = <<>>
      /\ events_buffer[r] = <<>>

\* C5's case: a run with two fan-out children has completed.
C5_Witness == runState[1] = "Completed" /\ FannedOut(1, 2)

\* C6: two concurrent runs started on an empty output directory do not read
\* each other's state: each works on the patient it was given and returns the
\* case summary of that patient.
C6_RunsIndependent ==
  \A r \in Runs :
    /\ CtxHas(ctx[r], "patient_info") => ctx[r]["patient_info"] = r
    /\ consumer[r].pc = "returned" =>
         /\ consumer[r].response_dict[1].demographic_info = r
         /\ \A i \in 1..Len(consumer[r].response_dict[1].condition_guideline_info) :
              consumer[r].response_dict[1].condition_guideline_info[i].bundle.patient = r

\* The LogEvents that are in the stream's queue.
QueuedLogs(r) == SelectSeq(streaming_queue[r], LAMBDA e : e.type = "LogEvent")

\* C7: every LogEvent a step writes is delivered to the stream's consumer, in
\* the order of writing, before the terminal event: what the consumer has
\* followed by what is queued is what was written, and a consumer that has
\* seen the stream end has every LogEvent of the run.
C7_LogsDelivered ==
  \A r \in Runs :
    /\ consumer[r].log_events \o QueuedLogs(r) = written[r]
    /\ consumer[r].pc \in {"awaiting", "returned", "raised"} =>
         consumer[r].log_events = written[r]

\* C7's case: the consumer holds LogEvents of a handle_guideline_match while
\* a handle_guideline_match is still suspended in the running run.
C7_Witness ==
  /\ runState[1] = "Running"
  /\ active[1]["handle_guideline_match"] # {}
  /\ \E i \in 1..Len(consumer[1].log_events) :
       consumer[1].log_events[i].step = "handle_guideline_match"

\* The most events one run of the model puts on its stream: the two of
\* parse_patient_info, those of every handle_guideline_match, the one of
\* generate_output and the StopEvent.
RECURSIVE HandlerLogs(_)
HandlerLogs(n) ==
  IF n = 0 THEN 0 ELSE HandlerLogs(n - 1) + GuidelineQueries(Bundle(1, n)) + 3 + 2

StreamTotal == 2 + HandlerLogs(MaxBundles) + 1 + 1

\* C8 as stated: the stream's queue has a bound at which a writing step would
\* block, so it never holds all the events of a run at once.
C8_BoundedStream ==
  \A r \in Runs : Len(streaming_queue[r]) < StreamTotal

\* C9: when a run fails, the observer has the LogEvents written before the
\* failure, then the failure, and no case summary.
C9_ObserverSeesLogs ==
  \A r \in Runs :
    consumer[r].pc = "raised" =>
      /\ st[r].logs = written[r]
      /\ st[r].case_summary = <<>>

\* C10: a read or write error on a stage's cache file is fatal: the stage
\* sends no output event, does not recompute after a failed read (the entry
\* stays as it was, the LLM is not asked for bundles), and its task ends with
\* an exception, so the run cannot complete.
C10_CacheErrorIsFatal ==
  \A r \in Runs :
    /\ PatientInfoFile \in cacheErrors[r] =>
         /\ sent[r]["PatientInfoEvent"] = 0
         /\ ~CtxHas(ctx[r], "patient_info")
         /\ PatientInfoFile \in DOMAIN startDir[r] =>
              fs[PatientInfoFile] = startDir[r][PatientInfoFile]
    /\ BundlesFile \in cacheErrors[r] =>
         /\ sent[r]["ConditionBundleEvent"] = 0
         /\ BundlesFile \in DOMAIN startDir[r] =>
              /\ calls[r].predict = 0
              /\ fs[BundlesFile] = startDir[r][BundlesFile]
    /\ RecsFile \in cacheErrors[r] => gathered[r] = <<>>
    /\ cacheErrors[r] # {} =>
         /\ Cardinality(cacheErrors[r]) = 1
         /\ Raised(r)
         /\ runState[r] \in {"Running", "Failed"}

\* C10's case: a run that found an unreadable condition_bundles.json has
\* failed.
C10_Witness ==
  /\ runState[1] = "Failed"
  /\ BundlesFile \in cacheErrors[1]
  /\ BundlesFile \in DOMAIN startDir[1]

\* The terminal states of a run.
Terminal == {"Completed", "Failed", "Cancelled"}

\* C13, in every state: the outcome the handle and the caller have is the one
\* of the run's state: a result for a Completed run and for no other, an
\* exception for a Failed run and for no other, nothing before the end.
C13_OneOutcome ==
  \A r \in Runs :
    /\ runState[r] \in {"Idle", "Running"} \cup Terminal
    /\ handle[r].status = "result" <=> runState[r] = "Completed"
    /\ handle[r].status = "exception" <=> runState[r] = "Failed"
    /\ runState[r] = "Completed" => handle[r].value # <<>>
    /\ consumer[r].pc = "returned" =>
         /\ runState[r] = "Completed"
         /\ consumer[r].response_dict = handle[r].value
    /\ consumer[r].pc # "returned" => consumer[r].response_dict = <<>>
    /\ runState[r] = "Idle" =>
         /\ consumer[r].pc = "idle"
         /\ \A s \in StepNames : queues[r][s] = <<>> /\ active[r][s] = {}

\* C13, in every step: the state changes only from Idle to Running and from
\* Running to a terminal state; in a terminal state no step is dispatched and
\* nothing is emitted: the stream only loses what its consumer takes.
C13_Transitions ==
  \A r \in Runs :
    /\ runState'[r] # runState[r] =>
         \/ runState[r] = "Idle" /\ runState'[r] = "Running"
         \/ runState[r] = "Running" /\ runState'[r] \in Terminal
    /\ runState[r] \in Terminal =>
         /\ runState'[r] = runState[r]
         /\ UNCHANGED <<queues[r], active[r], sent[r], written[r], ctx[r],
                        events_buffer[r], handle[r], doneExc[r], cacheWrites[r]>>
         /\ \E k \in 0..Len(streaming_queue[r]) :
              streaming_queue'[r] =
                SubSeq(streaming_queue[r], k + 1, Len(streaming_queue[r]))

\* C13: a run goes Idle -> Running -> one of Completed, Failed, Cancelled; the
\* terminal states exclude each other and are absorbing, and the caller gets a
\* final result exactly from a Completed run.
C13_StateMachine == []C13_OneOutcome /\ [][C13_Transitions]_vars

\* C13's case: a Completed run has returned its result to the caller, who has
\* written it to the page.
C13_Witness ==
  /\ runState[1] = "Completed"
  /\ consumer[1].pc = "returned"
  /\ st[1].case_summary # <<>>

\* The MatchGuidelineEvents of the run that a worker has taken.
Begun(r) == sent[r]["MatchGuidelineEvent"] - Len(queues[r]["handle_guideline_match"])

\* C14 as stated: a child of the fan-out begins execution before
\* dispatch_guideline_match returns, so once dispatch has returned from
\* sending children, one of them has been taken by a worker.
C14_ChildrenStartBeforeReturn ==
  \A r \in Runs :
    (CtxHas(ctx[r], "num_conditions") /\ sent[r]["MatchGuidelineEvent"] > 0
       /\ runState[r] = "Running")
      => Begun(r) > 0

\* C14 amended, in every state: the children are never partly sent; when one
\* has begun, dispatch has sent them all and has returned.
C14_SentTogether ==
  \A r \in Runs :
    /\ active[r]["dispatch_guideline_match"] = {}
    /\ sent[r]["MatchGuidelineEvent"] > 0 =>
         /\ CtxHas(ctx[r], "num_conditions")
         /\ sent[r]["MatchGuidelineEvent"] = ctx[r]["num_conditions"]
    /\ Begun(r) >= 0

\* C14 amended, in every step: the step in which dispatch_guideline_match runs
\* leaves every child in handle_guideline_match's queue, in the order of the
\* bundles, and none of them begun.
C14_QueuedAtReturn ==
  \A r \in Runs :
    (~CtxHas(ctx[r], "num_conditions") /\ CtxHas(ctx'[r], "num_conditions")) =>
      LET bundles == Head(queues[r]["dispatch_guideline_match"]).payload
      IN /\ queues'[r]["handle_guideline_match"] =
              [i \in 1..Len(bundles) |-> Event("MatchGuidelineEvent", bundles[i])]
         /\ active'[r]["handle_guideline_match"] = {}
         /\ Begun(r)' = 0

\* C14 amended: a handler's events are enqueued when they are sent, and the
\* children of dispatch_guideline_match are all queued, none begun, when it
\* returns: they begin execution after it has returned.
C14_ChildrenStartAfterReturn == []C14_SentTogether /\ [][C14_QueuedAtReturn]_vars

\* C14's case: dispatch has returned from sending two children and neither
\* has begun.
C14_Witness ==
  /\ FannedOut(1, 2)
  /\ Len(queues[1]["handle_guideline_match"]) = 2
  /\ active[1]["handle_guideline_match"] = {}

\* How often the run has written the cache file.
WritesOf(r, path) == Cardinality({i \in 1..Len(cacheWrites[r]) : cacheWrites[r][i] = path})

\* C15, in every state: guideline_recommendations.jsonl is written as often
\* as a GenerateCaseSummaryEvent is emitted, at most once, once in a run that
\* completes, and holds the recommendations the event carries.
C15_WrittenOnce ==
  \A r \in Runs :
    /\ WritesOf(r, RecsFile) = sent[r]["GenerateCaseSummaryEvent"]
    /\ WritesOf(r, RecsFile) <= 1
    /\ runState[r] = "Completed" => WritesOf(r, RecsFile) = 1
    /\ gathered[r] # <<>> =>
         /\ exists(RecsFile)
         /\ fs[RecsFile].valid
         /\ fs[RecsFile].n = Len(gathered[r][1])
         /\ fs[RecsFile].n = ctx[r]["num_conditions"]

\* C15, in every step: an invocation of gather_guideline_match whose
\* submission is not the N-th only buffers it: no event, no file, no
\* exception; the N-th writes the file and emits the event, or fails on the
\* write and emits nothing.
C15_OnlyLastProceeds ==
  \A r \in Runs :
    LET step == "gather_guideline_match" IN
    Len(queues'[r][step]) < Len(queues[r][step]) =>
      IF Len(events_buffer[r]) + 1 < ctx[r]["num_conditions"]
        THEN /\ events_buffer'[r] = Append(events_buffer[r], Head(queues[r][step]))
             /\ UNCHANGED <<fs, sent[r], gathered[r], cacheWrites[r], doneExc[r],
                            streaming_queue[r]>>
             /\ \A s \in StepNames \ {step} : queues'[r][s] = queues[r][s]
        ELSE /\ events_buffer'[r] = <<>>
             /\ \/ /\ cacheWrites'[r] = Append(cacheWrites[r], RecsFile)
                   /\ Len(gathered'[r]) = Len(gathered[r]) + 1
                   /\ Len(queues'[r]["generate_output"]) = 1
                \/ /\ UNCHANGED <<fs, sent[r], gathered[r], cacheWrites[r]>>
                   /\ doneExc'[r] # doneExc[r]

\* C15: of the N invocations of gather_guideline_match only the one with the
\* N-th submission proceeds; the others return without an event and without
\* writing guideline_recommendations.jsonl, which is written once per run,
\* before the GenerateCaseSummaryEvent is emitted.
C15_GatherOnce == []C15_WrittenOnce /\ [][C15_OnlyLastProceeds]_vars

\* C15's case: of two invocations the first returned None and the second
\* wrote the file and emitted the event.
C15_Witness ==
  /\ FannedOut(1, 2)
  /\ WritesOf(1, RecsFile) = 1
  /\ queues[1]["generate_output"] # <<>>

\* The event the step has put last on the queue of the step that accepts it.
LastSent(r, type) ==
  LET q == queues'[r][Accepts(type)] IN q[Len(q)].payload

\* C16, in every state: once PatientInfoEvent (ConditionBundleEvent) has been
\* emitted, the stage's cache entry exists, is readable and holds the value
\* the event carries.
C16_CacheHoldsEmitted ==
  \A r \in Runs :
    /\ sent[r]["PatientInfoEvent"] > 0 =>
         /\ exists(PatientInfoFile)
         /\ fs[PatientInfoFile].valid
         /\ fs[PatientInfoFile].patient = ctx[r]["patient_info"]
         /\ \A i \in 1..Len(queues[r]["create_condition_bundles"]) :
              queues[r]["create_condition_bundles"][i].payload
                = fs[PatientInfoFile].patient
    /\ sent[r]["ConditionBundleEvent"] > 0 =>
         /\ exists(BundlesFile)
         /\ fs[BundlesFile].valid
         /\ \A i \in 1..Len(queues[r]["dispatch_guideline_match"]) :
              queues[r]["dispatch_guideline_match"][i].payload
                = Bundles(fs[BundlesFile].patient, fs[BundlesFile].n)
         /\ CtxHas(ctx[r], "num_conditions") =>
              ctx[r]["num_conditions"] = fs[BundlesFile].n

\* C16, in every step of the two stages: with the entry there, the stage calls
\* nothing, writes nothing and emits the cached value; with the entry absent,
\* the stage that emits has computed the value from its input and has saved it.
C16_HitOrSave ==
  \A r \in Runs :
    /\ Len(queues'[r]["parse_patient_info"]) < Len(queues[r]["parse_patient_info"]) =>
         IF exists(PatientInfoFile)
           THEN /\ UNCHANGED <<fs, cacheWrites[r], calls[r]>>
                /\ sent'[r]["PatientInfoEvent"] > sent[r]["PatientInfoEvent"] =>
                     LastSent(r, "PatientInfoEvent") = fs[PatientInfoFile].patient
           ELSE sent'[r]["PatientInfoEvent"] > sent[r]["PatientInfoEvent"] =>
                  /\ LastSent(r, "PatientInfoEvent")
                       = Head(queues[r]["parse_patient_info"]).payload
                  /\ cacheWrites'[r] = Append(cacheWrites[r], PatientInfoFile)
                  /\ fs' = Written(PatientInfoFile,
                                   FileOf(LastSent(r, "PatientInfoEvent"), 0))
    /\ Len(queues'[r]["create_condition_bundles"])
         < Len(queues[r]["create_condition_bundles"]) =>
         IF exists(BundlesFile)
           THEN /\ UNCHANGED <<fs, cacheWrites[r], calls[r], active[r]>>
                /\ sent'[r]["ConditionBundleEvent"] > sent[r]["ConditionBundleEvent"] =>
                     LastSent(r, "ConditionBundleEvent")
                       = Bundles(fs[BundlesFile].patient, fs[BundlesFile].n)
           ELSE /\ calls'[r].predict = calls[r].predict + 1
                /\ UNCHANGED <<fs, cacheWrites[r], sent[r]>>
    /\ (sent'[r]["ConditionBundleEvent"] > sent[r]["ConditionBundleEvent"]
          /\ active'[r]["create_condition_bundles"] # active[r]["create_condition_bundles"]) =>
         /\ cacheWrites'[r] = Append(cacheWrites[r], BundlesFile)
         /\ BundlesFile \in DOMAIN fs'
         /\ LastSent(r, "ConditionBundleEvent")
              = Bundles(fs'[BundlesFile].patient, fs'[BundlesFile].n)
         /\ fs'[BundlesFile].patient = ctx[r]["patient_info"]

\* C16: parse_patient_info and create_condition_bundles use the cache entry
\* that exists when they start (no parsing or generation call, no rewrite, the
\* cached value emitted) and otherwise compute the value and save it before
\* they emit it; so an emitted PatientInfoEvent or ConditionBundleEvent has its
\* value in the cache.
C16_CachedStages == []C16_CacheHoldsEmitted /\ [][C16_HitOrSave]_vars

\* C16's cases: the run found another patient's patient_info.json and emitted
\* that patient, found no condition_bundles.json and has saved and emitted the
\* bundles the LLM made.
C16_Witness ==
  /\ DOMAIN startDir[1] = {PatientInfoFile}
  /\ CtxHas(ctx[1], "patient_info") /\ ctx[1]["patient_info"] = 2
  /\ cacheWrites[1] = <<BundlesFile>>
  /\ sent[1]["ConditionBundleEvent"] = 1

\* The event types that are routed to the workflow's own steps.
RoutedTypes == EventTypes \ {"StopEvent"}

\* The events of the type that wait in the queues of the run's steps.
RECURSIVE QueuedOf(_, _, _)
QueuedOf(q, type, steps) ==
  IF steps = {} THEN 0
  ELSE LET s == CHOOSE x \in steps : TRUE
       IN Len(SelectSeq(q[s], LAMBDA e : e.type = type)) + QueuedOf(q, type, steps \ {s})

\* Each routed event type is in the signature of exactly one step.
OneStepPerType ==
  \A type \in RoutedTypes :
    Cardinality({s \in StepNames : type \in accepted_events(s)}) = 1

\* C17, in every state: each routed event type is taken by exactly one step,
\* and every queued event waits at a step that takes its type.
C17_OneConsumer ==
  /\ OneStepPerType
  /\ \A r \in Runs : \A s \in StepNames :
       \A i \in 1..Len(queues[r][s]) :
         queues[r][s][i].type \in accepted_events(s)
  /\ \A r \in Runs : \A s \in StepNames : \A type \in accepted_events(s) :
       Len(queues[r][s]) <= sent[r][type]

\* C17, in every step: the events a step sends are delivered once each: the
\* queued events of their type grow by the number sent.
C17_DeliveredOnce ==
  \A r \in Runs : \A type \in RoutedTypes :
    sent'[r][type] > sent[r][type] =>
      QueuedOf(queues'[r], type, StepNames)
        = QueuedOf(queues[r], type, StepNames) + sent'[r][type] - sent[r][type]

\* C17: every event type but StopEvent and LogEvent has exactly one consuming
\* step, and no routed event is delivered to no step or to more than one.
C17_SingleRouting == []C17_OneConsumer /\ [][C17_DeliveredOnce]_vars

\* C17's case: the two children of a fan-out are queued at the one step that
\* takes them, and nowhere else.
C17_Witness ==
  /\ QueuedOf(queues[1], "MatchGuidelineEvent", StepNames) = 2
  /\ Len(queues[1]["handle_guideline_match"]) = 2
  /\ sent[1]["MatchGuidelineEvent"] = 2
  /\ settled[1] = {}
  /\ calls[1].predict = 1

\* LogEvent is in the signature of no step.
NoStepAcceptsLog == \A s \in StepNames : "LogEvent" \notin accepted_events(s)

\* C18, in every state: no step accepts a LogEvent, no LogEvent is in a work
\* queue or in the fan-in buffer, and the Context holds the two keys the steps
\* set.
C18_LogsNotRouted ==
  /\ NoStepAcceptsLog
  /\ \A r \in Runs :
       /\ \A s \in StepNames : \A i \in 1..Len(queues[r][s]) :
            queues[r][s][i].type # "LogEvent"
       /\ \A i \in 1..Len(events_buffer[r]) : events_buffer[r][i].type # "LogEvent"
       /\ DOMAIN ctx[r] \subseteq {"patient_info", "num_conditions"}

\* C18, in every step: a step that writes LogEvents appends them to the
\* stream, in order; what it does besides is what it does without them: the
\* run's state and the fan-in buffer stay, the work queues lose the event the
\* step took and get the event it returns, no step is begun by the write.
C18_OnlyAppends ==
  \A r \in Runs :
    written'[r] # written[r] =>
      /\ streaming_queue'[r]
           = streaming_queue[r]
               \o SubSeq(written'[r], Len(written[r]) + 1, Len(written'[r]))
      /\ UNCHANGED <<runState[r], events_buffer[r], handle[r], consumer[r]>>
      /\ \A s \in StepNames : Len(queues'[r][s]) <= Len(queues[r][s]) + 1
      /\ \A type \in RoutedTypes :
           QueuedOf(queues'[r], type, StepNames)
             <= QueuedOf(queues[r], type, StepNames) + sent'[r][type] - sent[r][type]
      /\ \A s \in StepNames :
           Cardinality(active'[r][s]) <= Cardinality(active[r][s])
             + Len(queues[r][s]) - Len(queues'[r][s])
             + (IF sent'[r] # sent[r] /\ s = Accepts(CHOOSE t \in RoutedTypes :
                                                      sent'[r][t] # sent[r][t])
                  THEN 1 ELSE 0)

\* C18: writing a LogEvent schedules no step; it appends to the event stream
\* and leaves the work queues, the Context, the fan-in buffer and the state of
\* the run as they are.
C18_LogIsSideChannel == []C18_LogsNotRouted /\ [][C18_OnlyAppends]_vars

\* C18's case: parse_patient_info has written its two LogEvents; they are in
\* the stream, and the only queued work is the event it returned.
C18_Witness ==
  /\ Len(written[1]) = 2
  /\ Len(streaming_queue[1]) = 2
  /\ \A s \in StepNames :
       Len(queues[1][s]) = IF s = "create_condition_bundles" THEN 1 ELSE 0
  /\ DOMAIN ctx[1] = {"patient_info"}

\* C19: a step that reads a Context key is reached only after the key was
\* written: whenever an event waits for handle_guideline_match or
\* generate_output, patient_info is in the Context, and whenever one waits for
\* gather_guideline_match, num_conditions is; the handlers that have begun
\* hold the value they read, and no ctx.get has failed.
C19_ReadAfterWrite ==
  \A r \in Runs :
    /\ queues[r]["handle_guideline_match"] # <<>> => CtxHas(ctx[r], "patient_info")
    /\ queues[r]["generate_output"] # <<>> => CtxHas(ctx[r], "patient_info")
    /\ queues[r]["gather_guideline_match"] # <<>> => CtxHas(ctx[r], "num_conditions")
    /\ \A s \in {"handle_guideline_match", "generate_output"} :
         \A inst \in active[r][s] :
           /\ CtxHas(ctx[r], "patient_info")
           /\ inst.patient_info = ctx[r]["patient_info"]
    /\ events_buffer[r] # <<>> => CtxHas(ctx[r], "num_conditions")
    /\ \A e \in doneExc[r] :
         e.exc = "ValueError" =>
           e.step \in {"parse_patient_info", "handle_guideline_match"}
    /\ (\E e \in doneExc[r] : e.step = "handle_guideline_match") =>
         CtxHas(ctx[r], "patient_info")

\* C19's case: a result waits for gather_guideline_match while a child still
\* waits for handle_guideline_match: both reads are about to happen.
C19_Witness ==
  /\ runState[1] = "Running"
  /\ queues[1]["gather_guideline_match"] # <<>>
  /\ queues[1]["handle_guideline_match"] # <<>>

\* How often dispatch_guideline_match has run in the run.
Dispatches(r) ==
  sent[r]["ConditionBundleEvent"] - Len(queues[r]["dispatch_guideline_match"])

\* C20, in every state: num_conditions is in the Context exactly when
\* dispatch_guideline_match has run, which it does at most once; it is the
\* number of MatchGuidelineEvents sent, none of which was sent without it; and
\* no more results than that have been submitted or buffered.
C20_CountMatchesFanOut ==
  \A r \in Runs :
    /\ Dispatches(r) \in {0, 1}
    /\ CtxHas(ctx[r], "num_conditions") <=> Dispatches(r) = 1
    /\ ~CtxHas(ctx[r], "num_conditions") => sent[r]["MatchGuidelineEvent"] = 0
    /\ CtxHas(ctx[r], "num_conditions") =>
         /\ sent[r]["MatchGuidelineEvent"] = ctx[r]["num_conditions"]
         /\ sent[r]["MatchGuidelineResultEvent"] <= ctx[r]["num_conditions"]
         /\ Len(events_buffer[r]) + Len(queues[r]["gather_guideline_match"])
              <= ctx[r]["num_conditions"]
         /\ Cardinality(settled[r]) = sent[r]["MatchGuidelineResultEvent"]

\* C20, in every step: the count is written in the step that queues the
\* children, as many as the count says, and is not changed afterwards.
C20_WrittenOnce ==
  \A r \in Runs :
    /\ CtxHas(ctx[r], "num_conditions") =>
         /\ CtxHas(ctx'[r], "num_conditions")
         /\ ctx'[r]["num_conditions"] = ctx[r]["num_conditions"]
         /\ sent'[r]["MatchGuidelineEvent"] = sent[r]["MatchGuidelineEvent"]
    /\ (~CtxHas(ctx[r], "num_conditions") /\ CtxHas(ctx'[r], "num_conditions")) =>
         /\ QueuedOf(queues'[r], "MatchGuidelineEvent", StepNames)
              = ctx'[r]["num_conditions"]
         /\ ctx'[r]["num_conditions"]
              = Len(Head(queues[r]["dispatch_guideline_match"]).payload)

\* C20: num_conditions is written once per run, before the first
\* MatchGuidelineEvent is sent, is the number of MatchGuidelineEvents
\* dispatched and never changes; so gather_guideline_match never gets more
\* MatchGuidelineResultEvents than the count.
C20_ExpectedCount == []C20_CountMatchesFanOut /\ [][C20_WrittenOnce]_vars

\* C20's case: the count is two and the two results have been submitted.
C20_Witness ==
  /\ FannedOut(1, 2)
  /\ sent[1]["MatchGuidelineResultEvent"] = 2
  /\ Len(events_buffer[1]) + Len(queues[1]["gather_guideline_match"]) = 2

\* The run is Completed: generate_output's StopEvent was the only one, and
\* the handle holds its result, the case summary made from the patient info
\* and the gathered pairs.
RunCompleted(r) ==
  /\ runState[r] = "Completed"
  /\ sent[r]["StopEvent"] = 1
  /\ handle[r].status = "result"
  /\ Len(handle[r].value) = 1
  /\ handle[r].value[1].demographic_info = ctx[r]["patient_info"]
  /\ handle[r].value[1].condition_guideline_info = gathered[r][1]

\* No run sends a second StopEvent.
C21_AtMostOneStop == \A r \in Runs : sent[r]["StopEvent"] <= 1

\* C21: under fair scheduling, a started run in which no handler raises and
\* whose fan-out has at least one bundle sends exactly one StopEvent and
\* completes with a case_summary result: no run ever sends a second StopEvent,
\* and every started run comes to be Completed, with one StopEvent sent and the
\* case summary as the handle's result, unless a handler has raised or the
\* fan-out was dispatched with no bundle.
C21_Terminates ==
  /\ []C21_AtMostOneStop
  /\ \A r \in FairRuns :
       (runState[r] = "Running")
         ~> (RunCompleted(r) \/ Raised(r) \/ FannedOut(r, 0))

\* A run with the most bundles has completed with its case summary, no
\* handler having raised.
C21_Witness ==
  /\ RunCompleted(1)
  /\ FannedOut(1, MaxBundles)
  /\ ~Raised(1)

\* How often bundle b occurs in a sequence of bundles.
Count(b, bundles) == Cardinality({j \in 1..Len(bundles) : bundles[j] = b})

\* The bundles of a list of (bundle, rec) pairs, in the list's order.
BundlesOf(match_results) ==
  [j \in 1..Len(match_results) |-> match_results[j].bundle]

\* C22: the collection a GenerateCaseSummaryEvent carries is, as a multiset,
\* the bundles dispatch_guideline_match has sent: as many pairs as bundles,
\* every dispatched bundle as often as it was dispatched and no other bundle;
\* and every pair holds the recommendation that the handler given that bundle
\* has made, from that bundle and the run's patient info, and has returned.
C22_PairsAreDispatched ==
  \A r \in Runs : \A i \in 1..Len(gathered[r]) :
    LET match_results == gathered[r][i] IN
    /\ Len(match_results) = Len(dispatched[r])
    /\ \A j \in 1..Len(dispatched[r]) :
         Count(dispatched[r][j], BundlesOf(match_results))
           = Count(dispatched[r][j], dispatched[r])
    /\ \A j \in 1..Len(match_results) :
         /\ Count(match_results[j].bundle, dispatched[r]) >= 1
         /\ match_results[j].bundle \in settled[r]
         /\ match_results[j].rec.for = match_results[j].bundle
         /\ match_results[j].rec.demo = ctx[r]["patient_info"]

\* The collection has been sent with the pairs of two bundles, in the order
\* the results came in, which is not the order of the dispatch.
C22_Witness ==
  /\ Len(gathered[1]) = 1
  /\ Len(gathered[1][1]) = MaxBundles
  /\ BundlesOf(gathered[1][1]) # dispatched[1]

====
